---- MODULE Spec2Model ----
(***************************************************************************)
(* Model of the local retrieval core of DevOps-RAG-Agent.                  *)
(*                                                                         *)
(* Part 1: the chunker (src/src/utils/textProcessor.ts), specification     *)
(*   Spec.                                                                 *)
(*   recursiveCharacterSplit / splitText are modelled as a machine with an *)
(*   explicit call stack: one frame per activation of splitText, one       *)
(*   action per return, per iteration of the hard-split loop and per       *)
(*   iteration of the loop over goodSplits.  createChunksFromDoc maps the  *)
(*   result.                                                               *)
(*                                                                         *)
(* Part 2: the retriever (src/utils/search.ts), specification             *)
(*   SpecRetrieve.  retrieveRelevantChunks is one action per statement and *)
(*   per iteration of its map over allChunks; tokenize, calculateScore and *)
(*   the sort are operators.  A score is the exact quotient of two small   *)
(*   integers, kept as a fraction in lowest terms.                         *)
(*                                                                         *)
(* A JavaScript string is a sequence of UTF-16 code units.  A code unit is *)
(* written as a one-character TLA+ string; "hi" and "lo" stand for a high  *)
(* and a low surrogate code unit (Array.from keeps a hi-lo pair together). *)
(***************************************************************************)
EXTENDS Integers, Sequences, FiniteSets, TLC

VARIABLES
    caller,        \* "split": recursiveCharacterSplit called directly; "doc": createChunksFromDoc
    docId,         \* createChunksFromDoc's docId (<<>> for a direct call)
    text,          \* the text / content argument
    chunkSize,     \* recursiveCharacterSplit's chunkSize
    chunkOverlap,  \* recursiveCharacterSplit's chunkOverlap
    pc,            \* "run" | "done" | "mapped"
    stack,         \* the activations of splitText, innermost last
    finalChunks,   \* the value recursiveCharacterSplit returns
    docChunks,     \* the value createChunksFromDoc returns
    query,         \* retrieveRelevantChunks' query
    allChunks,     \* retrieveRelevantChunks' allChunks
    topK,          \* retrieveRelevantChunks' topK
    rpc,           \* "idle" | "call" | "map" | "slice" | "returned"
    queryTokens,   \* line 14
    scoredChunks,  \* lines 16-23
    result         \* the value retrieveRelevantChunks returns

chunkerVars == <<caller, docId, text, chunkSize, chunkOverlap, pc, stack, finalChunks, docChunks>>

retrieverVars == <<query, allChunks, topK, rpc, queryTokens, scoredChunks, result>>

\* The application: App.tsx, components/DocManager.tsx and services/gemini.ts
VARIABLES
    apiKey,        \* process.env.API_KEY is set
    now,           \* the clock read by Date.now() and new Date(), in milliseconds
    docs,          \* App state docs: the knowledge base, a sequence of KnowledgeDoc
    rawLog,        \* App state rawLog
    isProcessing,  \* App state isProcessing
    errorMsg,      \* App state errorMsg: <<>> for null, <<message>> otherwise
    ragResult,     \* App state result: <<>> for null, <<RAGResult>> otherwise
    steps,         \* App state steps: the status of the steps '1'..'4'
    runs           \* the activations of handleRunAnalysis that passed line 34, in order of start

appVars == <<apiKey, now, docs, rawLog, isProcessing, errorMsg, ragResult, steps, runs>>

vars == <<chunkerVars, retrieverVars, appVars>>

----------------------------------------------------------------------------
(* Bounds of the model *)

\* the longest text over Alphabet
MaxLen == 4
\* chunkSize and chunkOverlap of a direct call range over 0..MaxChunk
MaxChunk == 3
\* iterations of the hard-split loop followed when its step is not positive
MaxHardChunks == 6
\* the longest collection handed to retrieveRelevantChunks
MaxChunks == 3
\* the clock of the application runs from 0 to MaxClock milliseconds
MaxClock == 1
\* the knowledge base holds at most MaxDocs documents
MaxDocs == 2
\* handleRunAnalysis is started at most MaxRuns times
MaxRuns == 2

(* Program constants: the defaults of chunkSize and chunkOverlap, lines 15-16 *)

DefaultChunkSize == 500
DefaultChunkOverlap == 50

\* the default of retrieveRelevantChunks' topK, search.ts line 10
DefaultTopK == 3

----------------------------------------------------------------------------
(* Strings *)

NL == "\n"
SP == " "
Hi == "hi"
Lo == "lo"

Alphabet == {"a", SP, NL, Hi, Lo}

Min(a, b) == IF a < b THEN a ELSE b
Max(a, b) == IF a > b THEN a ELSE b

Rep(c, n) == [i \in 1..n |-> c]

RECURSIVE Concat(_)
Concat(ss) == IF ss = <<>> THEN <<>> ELSE Head(ss) \o Concat(Tail(ss))

\* String.prototype.slice(a, b) on code units, 0-based, negative indexes from the end
Slice(s, a, b) ==
    LET n == Len(s)
        from == IF a < 0 THEN Max(n + a, 0) ELSE Min(a, n)
        to == IF b < 0 THEN Max(n + b, 0) ELSE Min(b, n)
    IN  IF from < to THEN SubSeq(s, from + 1, to) ELSE <<>>

\* s has sep at 0-based position p
MatchesAt(s, sep, p) ==
    /\ p + Len(sep) <= Len(s)
    /\ \A j \in 1..Len(sep) : s[p + j] = sep[j]

\* One scanning step of String.prototype.split(sep) at position p, for a non-empty sep:
\* st.start is where the current piece starts, a match before st.start overlaps the last one.
SplitScanStep(s, sep, st, p) ==
    IF p >= st.start /\ MatchesAt(s, sep, p)
    THEN [pieces |-> Append(st.pieces, SubSeq(s, st.start + 1, p)), start |-> p + Len(sep)]
    ELSE st

\* The scan over positions lo..hi, left to right.  The range is halved and the left half
\* evaluated first (left = left), so that the evaluation of a long text stays shallow.
RECURSIVE SplitScan(_, _, _, _, _)
SplitScan(s, sep, st, lo, hi) ==
    IF lo > hi THEN st
    ELSE IF lo = hi THEN SplitScanStep(s, sep, st, lo)
    ELSE LET mid == (lo + hi) \div 2
             left == SplitScan(s, sep, st, lo, mid)
         IN  IF left = left THEN SplitScan(s, sep, left, mid + 1, hi) ELSE st

\* currentText.split(separator), separator non-empty
JSSplit(s, sep) ==
    LET st == SplitScan(s, sep, [pieces |-> <<>>, start |-> 0], 0, Len(s) - Len(sep))
    IN  Append(st.pieces, SubSeq(s, st.start + 1, Len(s)))

\* Array.from(currentText): the code points; a hi-lo pair is one element of length 2
IsPairAt(s, i) == i < Len(s) /\ s[i] = Hi /\ s[i + 1] = Lo

CodePointStep(s, st, i) ==
    IF i < st.next THEN st
    ELSE IF IsPairAt(s, i)
         THEN [out |-> Append(st.out, <<s[i], s[i + 1]>>), next |-> i + 2]
         ELSE [out |-> Append(st.out, <<s[i]>>), next |-> i + 1]

RECURSIVE CodePointScan(_, _, _, _)
CodePointScan(s, st, lo, hi) ==
    IF lo > hi THEN st
    ELSE IF lo = hi THEN CodePointStep(s, st, lo)
    ELSE LET mid == (lo + hi) \div 2
             left == CodePointScan(s, st, lo, mid)
         IN  IF left = left THEN CodePointScan(s, left, mid + 1, hi) ELSE st

ArrayFrom(s) == CodePointScan(s, [out |-> <<>>, next |-> 1], 1, Len(s)).out

\* String.prototype.trim(): white space and line terminators off both ends
IsSpace(c) == c \in {SP, NL}

Trim(s) ==
    LET keep == {i \in 1..Len(s) : ~IsSpace(s[i])}
    IN  IF keep = {} THEN <<>>
        ELSE LET first == CHOOSE i \in keep : \A j \in keep : i <= j
                 last == CHOOSE i \in keep : \A j \in keep : j <= i
             IN  SubSeq(s, first, last)

\* Number -> decimal string, as a template literal formats an array index
Digit(d) == <<"0", "1", "2", "3", "4", "5", "6", "7", "8", "9">>[d + 1]

RECURSIVE ToDecimal(_)
ToDecimal(n) == IF n < 10 THEN <<Digit(n)>> ELSE Append(ToDecimal(n \div 10), Digit(n % 10))

----------------------------------------------------------------------------
(* splitText *)

\* mutant of separators: the space level is missing
separatorsNoSpace == <<<<NL, NL>>, <<NL>>, <<>>>>

\* line 18
separators == <<<<NL, NL>>, <<NL>>, <<SP>>, <<>>>>

\* lines 37-44: the pieces of currentText at this separator level
Splits(currentText, separator) ==
    IF separator = <<>> THEN ArrayFrom(currentText) ELSE JSSplit(currentText, separator)

\* mutant of RecombineStep: the flushed chunk is carried over into the next one
RecombineStepNoReset(size, separator, st, split) ==
    LET potentialChunk ==
            IF Len(st.currentChunk) > 0 THEN st.currentChunk \o separator \o split ELSE split
    IN  IF Len(potentialChunk) < size
        THEN [st EXCEPT !.currentChunk = potentialChunk]
        ELSE [goodSplits |-> IF st.currentChunk # <<>>
                             THEN Append(st.goodSplits, st.currentChunk)
                             ELSE st.goodSplits,
              currentChunk |-> potentialChunk]

\* mutant of RecombineStep: a token is appended when the result has length chunkSize
RecombineStepInclusive(size, separator, st, split) ==
    LET potentialChunk ==
            IF Len(st.currentChunk) > 0 THEN st.currentChunk \o separator \o split ELSE split
    IN  IF Len(potentialChunk) <= size
        THEN [st EXCEPT !.currentChunk = potentialChunk]
        ELSE [goodSplits |-> IF st.currentChunk # <<>>
                             THEN Append(st.goodSplits, st.currentChunk)
                             ELSE st.goodSplits,
              currentChunk |-> split]

\* lines 50-63: one iteration of the recombination loop
RecombineStep(size, separator, st, split) ==
    LET potentialChunk ==
            IF Len(st.currentChunk) > 0 THEN st.currentChunk \o separator \o split ELSE split
    IN  IF Len(potentialChunk) < size
        THEN [st EXCEPT !.currentChunk = potentialChunk]
        ELSE [goodSplits |-> IF st.currentChunk # <<>>
                             THEN Append(st.goodSplits, st.currentChunk)
                             ELSE st.goodSplits,
              currentChunk |-> split]

\* the loop over splits[lo..hi], left to right (halved so that the evaluation stays shallow)
RECURSIVE RecombineLoop(_, _, _, _, _, _)
RecombineLoop(size, separator, splits, st, lo, hi) ==
    IF lo > hi THEN st
    ELSE IF lo = hi THEN RecombineStep(size, separator, st, splits[lo])
    ELSE LET mid == (lo + hi) \div 2
             left == RecombineLoop(size, separator, splits, st, lo, mid)
         IN  IF left = left THEN RecombineLoop(size, separator, splits, left, mid + 1, hi) ELSE st

\* mutant of Recombine: the remainder is not pushed after the loop
RecombineNoRemainder(size, separator, splits) ==
    RecombineLoop(size, separator, splits,
                  [goodSplits |-> <<>>, currentChunk |-> <<>>], 1, Len(splits)).goodSplits

\* lines 46-68: goodSplits
Recombine(size, separator, splits) ==
    LET st == RecombineLoop(size, separator, splits,
                            [goodSplits |-> <<>>, currentChunk |-> <<>>], 1, Len(splits))
    IN  IF st.currentChunk # <<>> THEN Append(st.goodSplits, st.currentChunk) ELSE st.goodSplits

GoodSplits(currentText, separatorIndex, size) ==
    LET separator == separators[separatorIndex + 1]
    IN  Recombine(size, separator, Splits(currentText, separator))

\* mutant of HardStep: the loop advances by the overlap
HardStepByOverlap(size, overlap) == overlap

\* line 31: the advance of the hard-split loop
HardStep(size, overlap) == size - overlap

\* mutant of TooBig: off by one
TooBigOffByOne(chunk, size) == Len(chunk) > size + 1

\* line 73: a recombined chunk that must be split again
TooBig(chunk, size) == Len(chunk) > size

\* an activation of splitText(currentText, separatorIndex) at its entry
Frame(currentText, separatorIndex) ==
    [currentText |-> currentText, separatorIndex |-> separatorIndex, at |-> "enter",
     i |-> 0, hardChunks |-> <<>>, goodSplits |-> <<>>, k |-> 1, processedSplits |-> <<>>]

Top == stack[Len(stack)]

\* return v from the innermost activation: to line 74 of the caller, or to line 83
Return(v) ==
    IF Len(stack) = 1
    THEN /\ stack' = <<>>
         /\ finalChunks' = v
         /\ pc' = "done"
    ELSE LET c == stack[Len(stack) - 1]
         IN  /\ stack' = [SubSeq(stack, 1, Len(stack) - 1) EXCEPT ![Len(stack) - 1] =
                             [c EXCEPT !.processedSplits = c.processedSplits \o v,
                                       !.k = c.k + 1]]
             /\ UNCHANGED <<finalChunks, pc>>

SetTop(f) == stack' = [stack EXCEPT ![Len(stack)] = f]

Running == pc = "run" /\ stack # <<>>

\* line 24
AtBaseCase == Running /\ Top.at = "enter" /\ Len(Top.currentText) <= chunkSize

\* line 29
AtHardSplit ==
    /\ Running /\ Top.at = "enter"
    /\ Len(Top.currentText) > chunkSize
    /\ Top.separatorIndex >= Len(separators)

\* line 31: the loop condition holds (MaxHardChunks bounds a loop that never ends)
InHardSplitLoop ==
    /\ Running /\ Top.at = "hard"
    /\ Top.i < Len(Top.currentText)
    /\ Len(Top.hardChunks) < MaxHardChunks

\* line 31: the loop condition fails
AtHardSplitEnd == Running /\ Top.at = "hard" /\ Top.i >= Len(Top.currentText)

\* line 37
AtSplit ==
    /\ Running /\ Top.at = "enter"
    /\ Len(Top.currentText) > chunkSize
    /\ Top.separatorIndex < Len(separators)

\* line 72: the loop over goodSplits has a chunk left
InProcessLoop == Running /\ Top.at = "process" /\ Top.k <= Len(Top.goodSplits)

\* line 72: the loop over goodSplits is over
AtProcessEnd == Running /\ Top.at = "process" /\ Top.k > Len(Top.goodSplits)

\* lines 24-26
BaseCase ==
    /\ AtBaseCase
    /\ Return(<<Top.currentText>>)
    /\ UNCHANGED <<appVars, retrieverVars, caller, docId, text, chunkSize, chunkOverlap, docChunks>>

\* lines 29-31: the hard split starts
HardSplitBegin ==
    /\ AtHardSplit
    /\ SetTop([Top EXCEPT !.at = "hard", !.i = 0, !.hardChunks = <<>>])
    /\ UNCHANGED <<appVars, retrieverVars, caller, docId, text, chunkSize, chunkOverlap, pc, finalChunks, docChunks>>

\* lines 31-33: one iteration of the hard-split loop
HardSplitStep ==
    /\ InHardSplitLoop
    /\ SetTop([Top EXCEPT
                 !.hardChunks = Append(Top.hardChunks,
                                       Slice(Top.currentText, Top.i, Top.i + chunkSize)),
                 !.i = Top.i + HardStep(chunkSize, chunkOverlap)])
    /\ UNCHANGED <<appVars, retrieverVars, caller, docId, text, chunkSize, chunkOverlap, pc, finalChunks, docChunks>>

\* line 34
HardSplitEnd ==
    /\ AtHardSplitEnd
    /\ Return(Top.hardChunks)
    /\ UNCHANGED <<appVars, retrieverVars, caller, docId, text, chunkSize, chunkOverlap, docChunks>>

\* lines 37-71: split at the separator of this level and recombine
SplitAndRecombine ==
    /\ AtSplit
    /\ SetTop([Top EXCEPT
                 !.at = "process",
                 !.goodSplits = GoodSplits(Top.currentText, Top.separatorIndex, chunkSize),
                 !.k = 1, !.processedSplits = <<>>])
    /\ UNCHANGED <<appVars, retrieverVars, caller, docId, text, chunkSize, chunkOverlap, pc, finalChunks, docChunks>>

\* lines 72-74: a chunk that is still too big is split at the next level
ProcessRecurse ==
    /\ InProcessLoop
    /\ TooBig(Top.goodSplits[Top.k], chunkSize)
    /\ stack' = Append(stack, Frame(Top.goodSplits[Top.k], Top.separatorIndex + 1))
    /\ UNCHANGED <<appVars, retrieverVars, caller, docId, text, chunkSize, chunkOverlap, pc, finalChunks, docChunks>>

\* lines 75-77: a chunk that fits is kept
ProcessKeep ==
    /\ InProcessLoop
    /\ ~TooBig(Top.goodSplits[Top.k], chunkSize)
    /\ SetTop([Top EXCEPT !.processedSplits = Append(Top.processedSplits, Top.goodSplits[Top.k]),
                          !.k = Top.k + 1])
    /\ UNCHANGED <<appVars, retrieverVars, caller, docId, text, chunkSize, chunkOverlap, pc, finalChunks, docChunks>>

\* line 80
ProcessEnd ==
    /\ AtProcessEnd
    /\ Return(Top.processedSplits)
    /\ UNCHANGED <<appVars, retrieverVars, caller, docId, text, chunkSize, chunkOverlap, docChunks>>

\* splitText can take a step
CanStep ==
    \/ AtBaseCase \/ AtHardSplit \/ InHardSplitLoop \/ AtHardSplitEnd
    \/ AtSplit \/ InProcessLoop \/ AtProcessEnd

----------------------------------------------------------------------------
(* createChunksFromDoc *)

ChunkId(id, idx) == id \o <<"-", "c", "h", "u", "n", "k", "-">> \o ToDecimal(idx)

\* lines 92-100: rawChunks.map((text, idx) => ...)
DocumentChunk(id, rawText, idx) ==
    [id |-> ChunkId(id, idx), sourceId |-> id, content |-> Trim(rawText),
     metadata |-> [startIndex |-> idx, endIndex |-> idx + 1]]

\* mutant of MapChunks: the index counts from 1
MapChunksFromOne(id, rawChunks) == [n \in 1..Len(rawChunks) |-> DocumentChunk(id, rawChunks[n], n)]

MapChunks(id, rawChunks) == [n \in 1..Len(rawChunks) |-> DocumentChunk(id, rawChunks[n], n - 1)]

CreateChunksReturn ==
    /\ pc = "done" /\ caller = "doc"
    /\ docChunks' = MapChunks(docId, finalChunks)
    /\ pc' = "mapped"
    /\ UNCHANGED <<appVars, retrieverVars, caller, docId, text, chunkSize, chunkOverlap, stack, finalChunks>>

----------------------------------------------------------------------------
(* tokenize and calculateScore (src/utils/search.ts) *)

LowerCaseLetters ==
    <<"a", "b", "c", "d", "e", "f", "g", "h", "i", "j", "k", "l", "m",
      "n", "o", "p", "q", "r", "s", "t", "u", "v", "w", "x", "y", "z">>

UpperCaseLetters ==
    <<"A", "B", "C", "D", "E", "F", "G", "H", "I", "J", "K", "L", "M",
      "N", "O", "P", "Q", "R", "S", "T", "U", "V", "W", "X", "Y", "Z">>

\* the code unit U+00DF, LATIN SMALL LETTER SHARP S: lower case, its upper case is "SS"
Eszett == "sharp-s"

IsUpperCase(c) == c \in {UpperCaseLetters[i] : i \in 1..26}
IsLowerCase(c) == c \in {LowerCaseLetters[i] : i \in 1..26}
IsDigit(c) == c \in {Digit(d) : d \in 0..9}

\* String.prototype.toLowerCase(), on the code units of the model
LowerCaseOf(c) ==
    IF IsUpperCase(c) THEN LowerCaseLetters[CHOOSE i \in 1..26 : UpperCaseLetters[i] = c] ELSE c

ToLowerCase(s) == [i \in 1..Len(s) |-> LowerCaseOf(s[i])]

\* the class \w of a regular expression without the u flag
IsWordChar(c) == IsLowerCase(c) \/ IsUpperCase(c) \/ IsDigit(c) \/ c = "_"

\* the code units the replace of line 31 keeps
IsWordOrSpace(c) == IsWordChar(c) \/ IsSpace(c)

\* line 31: .replace(/[^\w\s]/g, '')
RemovePunctuation(s) == SelectSeq(s, IsWordOrSpace)

\* the k-th smallest element of the set of numbers S
Kth(S, k) == CHOOSE a \in S : Cardinality({x \in S : x < a}) = k - 1

\* line 32: .split(/\s+/): the maximal runs free of white space, in order, with an empty
\* piece in front if the text is empty or starts with white space and an empty piece at
\* the end if it ends with white space
SplitSpace(s) ==
    LET n == Len(s)
        starts == {a \in 1..n : ~IsSpace(s[a]) /\ (a = 1 \/ IsSpace(s[a - 1]))}
        ends == {b \in 1..n : ~IsSpace(s[b]) /\ (b = n \/ IsSpace(s[b + 1]))}
        words == [k \in 1..Cardinality(starts) |-> SubSeq(s, Kth(starts, k), Kth(ends, k))]
        lead == IF n = 0 \/ IsSpace(s[1]) THEN <<<<>>>> ELSE <<>>
        trail == IF n > 0 /\ IsSpace(s[n]) THEN <<<<>>>> ELSE <<>>
    IN  lead \o words \o trail

\* mutant of tokenize: the text is not lower-cased
tokenizeCaseSensitive(t) ==
    LET words == SplitSpace(RemovePunctuation(t))
    IN  {words[i] : i \in {j \in 1..Len(words) : Len(words[j]) > 2}}

\* mutant of tokenize: words of length 2 are kept
tokenizeKeepsShort(t) ==
    LET words == SplitSpace(RemovePunctuation(ToLowerCase(t)))
    IN  {words[i] : i \in {j \in 1..Len(words) : Len(words[j]) >= 2}}

\* lines 28-35: tokenize
tokenize(t) ==
    LET words == SplitSpace(RemovePunctuation(ToLowerCase(t)))
    IN  {words[i] : i \in {j \in 1..Len(words) : Len(words[j]) > 2}}

RECURSIVE GCD(_, _)
GCD(a, b) == IF b = 0 THEN a ELSE GCD(b, a % b)

\* the number n / d (d > 0), as a fraction in lowest terms
Quotient(n, d) == LET g == GCD(n, d) IN [num |-> n \div g, den |-> d \div g]

\* the sign of x - y, as the difference scaled by the denominators
Minus(x, y) == x.num * y.den - y.num * x.den

\* mutant of calculateScore: the quotient is rounded down to an integer
calculateScoreFloor(qTokens, cTokens) ==
    LET overlap == Cardinality({qt \in qTokens : qt \in cTokens})
        sum == Cardinality(qTokens) + Cardinality(cTokens) - overlap
    IN  Quotient(overlap \div (IF sum = 0 THEN 1 ELSE sum), 1)

\* mutant of calculateScore: the overlap is not subtracted from the divisor
calculateScoreNoUnion(qTokens, cTokens) ==
    LET overlap == Cardinality({qt \in qTokens : qt \in cTokens})
        sum == Cardinality(qTokens) + Cardinality(cTokens)
    IN  Quotient(overlap, IF sum = 0 THEN 1 ELSE sum)

\* lines 37-46: calculateScore
calculateScore(qTokens, cTokens) ==
    LET overlap == Cardinality({qt \in qTokens : qt \in cTokens})
        sum == Cardinality(qTokens) + Cardinality(cTokens) - overlap
    IN  Quotient(overlap, IF sum = 0 THEN 1 ELSE sum)

----------------------------------------------------------------------------
(* retrieveRelevantChunks (src/utils/search.ts) *)

\* mutant of ScoredCandidate: the candidate holds a normalised copy of the chunk
ScoredCandidateNormalised(chunk, qTokens) ==
    [chunk |-> [chunk EXCEPT !.content = ToLowerCase(chunk.content)],
     score |-> calculateScore(qTokens, tokenize(chunk.content))]

\* lines 16-20: the element the map builds for one chunk
ScoredCandidate(chunk, qTokens) ==
    [chunk |-> chunk, score |-> calculateScore(qTokens, tokenize(chunk.content))]

\* line 23: the comparator (a, b) => b.score - a.score
CompareScore(a, b) == Minus(b.score, a.score)

\* mutant of InsertSorted: a candidate goes before the candidates that compare equal to it
InsertBeforeEqual(sorted, x) ==
    LET p == Cardinality({i \in 1..Len(sorted) : CompareScore(sorted[i], x) < 0})
    IN  SubSeq(sorted, 1, p) \o <<x>> \o SubSeq(sorted, p + 1, Len(sorted))

\* mutant of InsertSorted: ascending order
InsertAscending(sorted, x) ==
    LET p == Cardinality({i \in 1..Len(sorted) : CompareScore(sorted[i], x) >= 0})
    IN  SubSeq(sorted, 1, p) \o <<x>> \o SubSeq(sorted, p + 1, Len(sorted))

\* Array.prototype.sort is stable: x, the next element of the array, goes after every
\* element already placed that the comparator does not put after it
InsertSorted(sorted, x) ==
    LET p == Cardinality({i \in 1..Len(sorted) : CompareScore(sorted[i], x) <= 0})
    IN  SubSeq(sorted, 1, p) \o <<x>> \o SubSeq(sorted, p + 1, Len(sorted))

\* line 23: scoredChunks.sort((a, b) => b.score - a.score)
RECURSIVE SortByScore(_)
SortByScore(items) ==
    IF items = <<>> THEN <<>>
    ELSE InsertSorted(SortByScore(SubSeq(items, 1, Len(items) - 1)), items[Len(items)])

\* mutant of TopSlice: the element at index topK is taken too
TopSliceInclusive(items, k) == Slice(items, 0, k + 1)

\* mutant of TopSlice: a topK of 0 is taken as not given, and replaced by the default
TopSliceDefaulting(items, k) == Slice(items, 0, IF k = 0 THEN DefaultTopK ELSE k)

\* line 25: scoredChunks.slice(0, topK)
TopSlice(items, k) == Slice(items, 0, k)

\* line 12
RetrieveEmpty ==
    /\ rpc = "call"
    /\ Len(allChunks) = 0
    /\ result' = <<>>
    /\ rpc' = "returned"
    /\ UNCHANGED <<appVars, chunkerVars, query, allChunks, topK, queryTokens, scoredChunks>>

\* line 14
TokenizeQuery ==
    /\ rpc = "call"
    /\ Len(allChunks) # 0
    /\ queryTokens' = tokenize(query)
    /\ rpc' = "map"
    /\ UNCHANGED <<appVars, chunkerVars, query, allChunks, topK, scoredChunks, result>>

\* lines 16-20: one element of allChunks.map(...)
ScoreChunk ==
    /\ rpc = "map"
    /\ Len(scoredChunks) < Len(allChunks)
    /\ scoredChunks' = Append(scoredChunks,
                              ScoredCandidate(allChunks[Len(scoredChunks) + 1], queryTokens))
    /\ UNCHANGED <<appVars, chunkerVars, query, allChunks, topK, rpc, queryTokens, result>>

\* line 23
SortScored ==
    /\ rpc = "map"
    /\ Len(scoredChunks) = Len(allChunks)
    /\ scoredChunks' = SortByScore(scoredChunks)
    /\ rpc' = "slice"
    /\ UNCHANGED <<appVars, chunkerVars, query, allChunks, topK, queryTokens, result>>

\* line 25
SliceAndReturn ==
    /\ rpc = "slice"
    /\ result' = LET top == TopSlice(scoredChunks, topK)
                 IN  [i \in 1..Len(top) |-> top[i].chunk]
    /\ rpc' = "returned"
    /\ UNCHANGED <<appVars, chunkerVars, query, allChunks, topK, queryTokens, scoredChunks>>

\* retrieveRelevantChunks can take a step
CanStepRetrieve ==
    \/ rpc = "call"
    \/ rpc = "map" /\ Len(scoredChunks) <= Len(allChunks)
    \/ rpc = "slice"

----------------------------------------------------------------------------
(* The calls *)

Texts == UNION {[1..n -> Alphabet] : n \in 0..MaxLen}

DocIds == {<<"d", "1">>, <<"d", "-", "c", "h", "u", "n", "k", "-", "0">>}

\* Scenario A of the specification: chunkSize 30, overlap 5, and the text
\* "Paragraph one.\n\nParagraph two is much longer than the chunk size and will need
\* splitting across line and word boundaries."
ParagraphOne ==
    <<"P", "a", "r", "a", "g", "r", "a", "p", "h", SP, "o", "n", "e", ".">>

ParagraphTwo ==
    <<"P", "a", "r", "a", "g", "r", "a", "p", "h", SP, "t", "w", "o", SP, "i", "s", SP, "m",
      "u", "c", "h", SP, "l", "o", "n", "g", "e", "r", SP, "t", "h", "a", "n", SP, "t", "h",
      "e", SP, "c", "h", "u", "n", "k", SP, "s", "i", "z", "e", SP, "a", "n", "d", SP, "w",
      "i", "l", "l", SP, "n", "e", "e", "d", SP, "s", "p", "l", "i", "t", "t", "i", "n", "g",
      SP, "a", "c", "r", "o", "s", "s", SP, "l", "i", "n", "e", SP, "a", "n", "d", SP, "w",
      "o", "r", "d", SP, "b", "o", "u", "n", "d", "a", "r", "i", "e", "s", ".">>

ScenarioA == [text |-> ParagraphOne \o <<NL, NL>> \o ParagraphTwo, chunkSize |-> 30, chunkOverlap |-> 5]

\* Scenario D of the specification: 1000 identical characters, chunkSize 100, overlap 0
ScenarioD == [text |-> Rep("a", 1000), chunkSize |-> 100, chunkOverlap |-> 0]

\* a document of 12 paragraphs of 250 characters each
LongDoc == Concat([p \in 1..12 |-> IF p = 1 THEN Rep("a", 250) ELSE <<NL, NL>> \o Rep("a", 250)])

DirectCalls ==
    {[text |-> t, chunkSize |-> s, chunkOverlap |-> o] :
        t \in Texts, s \in 0..MaxChunk, o \in 0..MaxChunk}
    \cup {ScenarioA, ScenarioD}

DocContents == Texts \cup {LongDoc, ScenarioD.text}

\* App.tsx lines 19-24: the steps '1'..'4' at construction
InitialSteps == [k \in 1..4 |-> "pending"]

\* the application is not used: its state stays as constructed (App.tsx lines 12-24)
AppIdle ==
    /\ apiKey = TRUE /\ now = 0
    /\ docs = <<>> /\ rawLog = <<>>
    /\ isProcessing = FALSE /\ errorMsg = <<>> /\ ragResult = <<>>
    /\ steps = InitialSteps
    /\ runs = <<>>

\* retrieveRelevantChunks is not called
RetrieverIdle ==
    /\ query = <<>> /\ allChunks = <<>> /\ topK = 0
    /\ rpc = "idle"
    /\ queryTokens = {} /\ scoredChunks = <<>> /\ result = <<>>

Init ==
    /\ \/ /\ caller = "split"
          /\ docId = <<>>
          /\ \E c \in DirectCalls :
                /\ text = c.text
                /\ chunkSize = c.chunkSize
                /\ chunkOverlap = c.chunkOverlap
       \/ /\ caller = "doc"
          /\ docId \in DocIds
          /\ text \in DocContents
          /\ chunkSize = DefaultChunkSize
          /\ chunkOverlap = DefaultChunkOverlap
    /\ pc = "run"
    /\ stack = <<Frame(text, 0)>>
    /\ finalChunks = <<>>
    /\ docChunks = <<>>
    /\ RetrieverIdle
    /\ AppIdle

Next ==
    \/ BaseCase
    \/ HardSplitBegin
    \/ HardSplitStep
    \/ HardSplitEnd
    \/ SplitAndRecombine
    \/ ProcessRecurse
    \/ ProcessKeep
    \/ ProcessEnd
    \/ CreateChunksReturn

Spec == Init /\ [][Next]_vars

\* the calls of retrieveRelevantChunks

\* Scenario B of the specification: the query "connection refused port 8080"
QueryScenarioB ==
    <<"c", "o", "n", "n", "e", "c", "t", "i", "o", "n", SP, "r", "e", "f", "u", "s", "e",
      "d", SP, "p", "o", "r", "t", SP, "8", "0", "8", "0">>

\* Scenario C of the specification: the empty query
QueryEmpty ==
    <<>>

\* a query of words of length <= 2 and punctuation: "is it up ?!"
QueryShortWords ==
    <<"i", "s", SP, "i", "t", SP, "u", "p", SP, "?", "!">>

\* " Refused:\nport  8080 ": the tokens of ContentPort, with other white space
QueryPort ==
    <<SP, "R", "e", "f", "u", "s", "e", "d", ":", NL, "p", "o", "r", "t", SP, SP, "8",
      "0", "8", "0", SP>>

\* "MySQL mysql timeouts"
QueryRepeat ==
    <<"M", "y", "S", "Q", "L", SP, "m", "y", "s", "q", "l", SP, "t", "i", "m", "e", "o",
      "u", "t", "s">>

\* "gro\u00DF", whose upper case is "GROSS"
QueryEszett ==
    <<"g", "r", "o", Eszett>>

\* Scenario B: c1, "MySQL connection pooling and timeouts"
ContentC1 ==
    <<"M", "y", "S", "Q", "L", SP, "c", "o", "n", "n", "e", "c", "t", "i", "o", "n", SP,
      "p", "o", "o", "l", "i", "n", "g", SP, "a", "n", "d", SP, "t", "i", "m", "e", "o",
      "u", "t", "s">>

\* Scenario B: c2, "Unrelated deployment rollback guide"
ContentC2 ==
    <<"U", "n", "r", "e", "l", "a", "t", "e", "d", SP, "d", "e", "p", "l", "o", "y", "m",
      "e", "n", "t", SP, "r", "o", "l", "l", "b", "a", "c", "k", SP, "g", "u", "i", "d",
      "e">>

\* "Port 8080 refused!"
ContentPort ==
    <<"P", "o", "r", "t", SP, "8", "0", "8", "0", SP, "r", "e", "f", "u", "s", "e", "d",
      "!">>

\* "8080 PORT: refused, refused port": the tokens of ContentPort
ContentPortAgain ==
    <<"8", "0", "8", "0", SP, "P", "O", "R", "T", ":", SP, "r", "e", "f", "u", "s", "e",
      "d", ",", SP, "r", "e", "f", "u", "s", "e", "d", SP, "p", "o", "r", "t">>

\* "GROSS"
ContentGross ==
    <<"G", "R", "O", "S", "S">>

\* "mysql"
ContentMysql ==
    <<"m", "y", "s", "q", "l">>
Queries ==
    {QueryScenarioB, QueryEmpty, QueryShortWords, QueryPort, QueryRepeat, QueryEszett}

\* a chunk as createChunksFromDoc builds it
Chunk(id, content) ==
    [id |-> id, sourceId |-> <<"d", "1">>, content |-> content,
     metadata |-> [startIndex |-> 0, endIndex |-> 1]]

ChunkC1 == Chunk(<<"c", "1">>, ContentC1)
ChunkC2 == Chunk(<<"c", "2">>, ContentC2)

\* the chunks the collections are made of; the chunk of content "" is the one
\* createChunksFromDoc makes of a piece of white space
ChunkPool ==
    {ChunkC1, ChunkC2,
     Chunk(<<"c", "3">>, ContentPort),
     Chunk(<<"c", "5">>, <<>>),
     Chunk(<<"c", "6">>, ContentGross)}

\* Scenario C of the specification needs more than 3 chunks: a collection of five, two
\* of which (c3 and c4) have the same tokens
FiveChunks ==
    <<Chunk(<<"c", "3">>, ContentPort), ChunkC2, Chunk(<<"c", "4">>, ContentPortAgain),
      ChunkC1, Chunk(<<"c", "6">>, ContentGross)>>

\* a collection of two chunks: c1 holds both words of QueryRepeat among five tokens, c7
\* is one of the two words and nothing else
MatchCountChunks ==
    <<ChunkC1, Chunk(<<"c", "7">>, ContentMysql)>>

\* the collections: every sequence of at most MaxChunks chunks of the pool, FiveChunks
\* and MatchCountChunks
Collections ==
    UNION {[1..n -> ChunkPool] : n \in 0..MaxChunks} \cup {FiveChunks, MatchCountChunks}

\* the values of topK: 0 .. one more than the longest collection, and the default
TopKs == 0..(MaxChunks + 1) \cup {DefaultTopK}

\* splitText and createChunksFromDoc are not called
ChunkerIdle ==
    /\ caller = "none" /\ docId = <<>> /\ text = <<>>
    /\ chunkSize = DefaultChunkSize /\ chunkOverlap = DefaultChunkOverlap
    /\ pc = "idle" /\ stack = <<>> /\ finalChunks = <<>> /\ docChunks = <<>>

\* a call of retrieveRelevantChunks(query, allChunks, topK)
InitRetrieve ==
    /\ ChunkerIdle
    /\ AppIdle
    /\ query \in Queries
    /\ allChunks \in Collections
    /\ topK \in TopKs
    /\ rpc = "call"
    /\ queryTokens = {} /\ scoredChunks = <<>> /\ result = <<>>

NextRetrieve ==
    \/ RetrieveEmpty
    \/ TokenizeQuery
    \/ ScoreChunk
    \/ SortScored
    \/ SliceAndReturn

SpecRetrieve == InitRetrieve /\ [][NextRetrieve]_vars

----------------------------------------------------------------------------
(* Properties *)

\* the contract of recursiveCharacterSplit: chunkSize >= 1, 0 <= chunkOverlap < chunkSize
ValidConfiguration == chunkSize >= 1 /\ 0 <= chunkOverlap /\ chunkOverlap < chunkSize

\* recursiveCharacterSplit has returned
Returned == pc \in {"done", "mapped"}

\* C1: under a valid configuration every string recursiveCharacterSplit returns has
\* length <= chunkSize.
C1_ChunkLengthBound ==
    (ValidConfiguration /\ Returned) =>
        \A n \in 1..Len(finalChunks) : Len(finalChunks[n]) <= chunkSize

\* C1's case: a text longer than chunkSize was split and a chunk of exactly chunkSize came out
C1_Witness ==
    /\ ValidConfiguration /\ Returned
    /\ Len(text) > chunkSize
    /\ Len(finalChunks) > 1
    /\ \E n \in 1..Len(finalChunks) : Len(finalChunks[n]) = chunkSize

\* C2: an invalid configuration (chunkSize <= 0 or chunkOverlap >= chunkSize) is rejected
\* at the call boundary: the call never returns chunks, and never enters the hard-split loop.
C2_InvalidConfigurationRejected ==
    ~ValidConfiguration =>
        /\ ~Returned
        /\ \A d \in 1..Len(stack) : stack[d].at # "hard"

\* C3: under a valid configuration recursiveCharacterSplit terminates.
\* StepsLeft is an upper bound on the number of steps the machine has left: the bound of
\* an activation at its entry follows the four separator levels and, in the hard split,
\* the characters the loop has not passed.
RECURSIVE SumRange(_, _, _)
SumRange(f, lo, hi) ==
    IF lo > hi THEN 0
    ELSE IF lo = hi THEN f[lo]
    ELSE LET mid == (lo + hi) \div 2
         IN  SumRange(f, lo, mid) + SumRange(f, mid + 1, hi)

RECURSIVE EntrySteps(_, _)
ChunkSteps(chunk, separatorIndex) ==
    1 + (IF Len(chunk) > chunkSize THEN EntrySteps(chunk, separatorIndex + 1) ELSE 0)

ProcessSteps(goodSplits, from, separatorIndex) ==
    1 + SumRange([n \in 1..Len(goodSplits) |-> ChunkSteps(goodSplits[n], separatorIndex)],
                 from, Len(goodSplits))

EntrySteps(currentText, separatorIndex) ==
    IF Len(currentText) <= chunkSize THEN 1
    ELSE IF separatorIndex >= 4 THEN 2 + Len(currentText)
    ELSE 1 + ProcessSteps(GoodSplits(currentText, separatorIndex, chunkSize), 1, separatorIndex)

FrameSteps(f, innermost) ==
    CASE f.at = "enter" -> EntrySteps(f.currentText, f.separatorIndex)
      [] f.at = "hard" -> 1 + Max(Len(f.currentText) - f.i, 0)
      [] f.at = "process" ->
            ProcessSteps(f.goodSplits, IF innermost THEN f.k ELSE f.k + 1, f.separatorIndex)

StepsLeft(at, frames) ==
    CASE at = "run" ->
            SumRange([d \in 1..Len(frames) |-> FrameSteps(frames[d], d = Len(frames))],
                     1, Len(frames))
            + (IF caller = "doc" THEN 1 ELSE 0)
      [] at = "done" -> IF caller = "doc" THEN 1 ELSE 0
      [] at = "mapped" -> 0

\* every step uses up the bound, and the machine stops only when the call has returned
C3_Terminates ==
    /\ [][ValidConfiguration => StepsLeft(pc', stack') < StepsLeft(pc, stack)]_vars
    /\ [](ValidConfiguration /\ pc = "run" => CanStep)

\* C3's case: the recursion went through all four separator levels into the hard split,
\* and the hard-split loop ran to its end
C3_Witness ==
    /\ ValidConfiguration /\ pc = "run"
    /\ Len(stack) = 5
    /\ Top.at = "hard"
    /\ Top.i >= Len(Top.currentText)
    /\ Len(Top.hardChunks) > 1

\* C4 (Scenario D): 1000 identical non-separator characters with chunkSize 100 and
\* chunkOverlap 0 give exactly 10 chunks, each of length exactly 100.
C4_ScenarioD ==
    (chunkSize = 100 /\ chunkOverlap = 0 /\ text = ScenarioD.text /\ Returned) =>
        /\ Len(finalChunks) = 10
        /\ \A n \in 1..Len(finalChunks) : Len(finalChunks[n]) = 100

\* the windows t[i .. i+size) for i = 0, step, 2*step, ... below Len(t), step = size - overlap
Windows(t, size, overlap) ==
    LET step == size - overlap
        count == (Len(t) + step - 1) \div step
    IN  [j \in 1..count |-> Slice(t, (j - 1) * step, (j - 1) * step + size)]

NoSeparator(t) == \A i \in 1..Len(t) : ~IsSpace(t[i])

\* C5: a text longer than chunkSize without paragraph break, line break or space is
\* returned as the consecutive windows of chunkSize characters, advancing by
\* chunkSize - chunkOverlap (adjacent chunks share chunkOverlap characters).
C5_HardSplitWindows ==
    (ValidConfiguration /\ Returned /\ Len(text) > chunkSize /\ NoSeparator(text)) =>
        finalChunks = Windows(text, chunkSize, chunkOverlap)

\* t[a+1 .. b] holds only separator characters (space, line break)
AllSpace(t, a, b) == \A i \in (a + 1)..b : IsSpace(t[i])

\* where the next chunk may start when the chunks so far end at p: after dropped separators
SkipSet(t, p) == {q \in p..Len(t) : AllSpace(t, p, q)}

\* where the chunks placed at the 0-based starts a end
AlignedEnd(chunks, a) == IF a = <<>> THEN 0 ELSE a[Len(a)] + Len(chunks[Len(a)])

\* the ways to lay the first k chunks over t, in order, without overlap, with only
\* separator characters in between: the sequences of the chunks' 0-based starts
RECURSIVE Alignments(_, _, _)
Alignments(t, chunks, k) ==
    IF k = 0 THEN {<<>>}
    ELSE UNION {{Append(a, q) : q \in {r \in SkipSet(t, AlignedEnd(chunks, a)) :
                                          MatchesAt(t, chunks[k], r)}} :
                a \in Alignments(t, chunks, k - 1)}

\* ... all the chunks, with only separator characters after the last
FullAlignments(t, chunks) ==
    {a \in Alignments(t, chunks, Len(chunks)) : AllSpace(t, AlignedEnd(chunks, a), Len(t))}

\* C6: the chunks cover the input in order: the input is the concatenation of the chunks
\* with runs of separator characters (those dropped at the chunk boundaries) put back
\* before, between and after them.
C6_CoversInput ==
    (ValidConfiguration /\ Returned) => FullAlignments(text, finalChunks) # {}

\* C6's case: several chunks came out and separator characters were dropped between them
C6_Witness ==
    /\ ValidConfiguration /\ Returned
    /\ Len(finalChunks) >= 2
    /\ Len(Concat(finalChunks)) < Len(text)
    /\ \E i \in 1..Len(text) : ~IsSpace(text[i])

\* the maximal non-empty runs of t free of Break characters, as <<from, to>>: t[from+1 .. to]
RunsOf(t, Break(_)) ==
    LET n == Len(t)
        starts == {a \in 0..(n - 1) : ~Break(t[a + 1]) /\ (a = 0 \/ Break(t[a]))}
        endOf(a) == CHOOSE b \in (a + 1)..n :
                        /\ b = n \/ Break(t[b + 1])
                        /\ \A i \in (a + 1)..b : ~Break(t[i])
    IN  {<<a, endOf(a)>> : a \in starts}

IsLineBreak(c) == c = NL

Words(t) == RunsOf(t, IsSpace)
Lines(t) == RunsOf(t, IsLineBreak)

\* the texts between paragraph breaks, as <<from, to>>
Paragraphs(t) ==
    LET ps == JSSplit(t, <<NL, NL>>)
        from(j) == SumRange([m \in 1..Len(ps) |-> Len(ps[m]) + 2], 1, j - 1)
    IN  {<<from(j), from(j) + Len(ps[j])>> : j \in 1..Len(ps)}

\* the non-empty paragraphs, lines and words of t that fit in a chunk
FittingUnits(t, size) ==
    {u \in Paragraphs(t) \cup Lines(t) \cup Words(t) : u[1] < u[2] /\ u[2] - u[1] <= size}

\* with the chunks laid at a, the unit u lies inside one chunk
InsideOneChunk(chunks, a, u) ==
    \E k \in 1..Len(chunks) : a[k] <= u[1] /\ u[2] <= a[k] + Len(chunks[k])

Contains(s, sub) == \E p \in 0..(Len(s) - Len(sub)) : MatchesAt(s, sub, p)

\* C7: a paragraph, line or word of the input that fits in chunkSize is never cut: it lies
\* wholly inside one returned chunk.  Scenario A: chunks of at most 30 characters, the
\* first of which contains "Paragraph one." intact.
C7_FittingUnitsIntact ==
    /\ (ValidConfiguration /\ Returned) =>
            \E a \in FullAlignments(text, finalChunks) :
                \A u \in FittingUnits(text, chunkSize) : InsideOneChunk(finalChunks, a, u)
    /\ (chunkSize = 30 /\ chunkOverlap = 5 /\ text = ScenarioA.text /\ Returned) =>
            /\ \A n \in 1..Len(finalChunks) : Len(finalChunks[n]) <= 30
            /\ finalChunks # <<>>
            /\ Contains(finalChunks[1], ParagraphOne)

\* C7's case: a line that does not fit was cut into several chunks, and a word of it of
\* two or more characters that fits came out whole
C7_Witness ==
    /\ ValidConfiguration /\ Returned
    /\ Len(finalChunks) >= 2
    /\ \E u \in Lines(text) : u[2] - u[1] > chunkSize
    /\ \E u \in Words(text) : u[2] - u[1] <= chunkSize /\ u[2] - u[1] >= 2
    /\ \E a \in FullAlignments(text, finalChunks) :
            \A u \in FittingUnits(text, chunkSize) : InsideOneChunk(finalChunks, a, u)

\* C8: every returned string is non-empty, and the empty text yields no chunks.
C8_ChunksNonEmpty ==
    (ValidConfiguration /\ Returned) =>
        /\ \A n \in 1..Len(finalChunks) : finalChunks[n] # <<>>
        /\ text = <<>> => finalChunks = <<>>

\* C9: every DocumentChunk createChunksFromDoc returns has non-empty content.
C9_NoEmptyDocumentChunk ==
    pc = "mapped" => \A n \in 1..Len(docChunks) : docChunks[n].content # <<>>

\* ds is the decimal numeral of n
DigitValue(c) ==
    CASE c = "0" -> 0 [] c = "1" -> 1 [] c = "2" -> 2 [] c = "3" -> 3 [] c = "4" -> 4
      [] c = "5" -> 5 [] c = "6" -> 6 [] c = "7" -> 7 [] c = "8" -> 8 [] c = "9" -> 9

RECURSIVE NumeralValue(_)
NumeralValue(ds) ==
    IF Len(ds) = 0 THEN 0
    ELSE 10 * NumeralValue(SubSeq(ds, 1, Len(ds) - 1)) + DigitValue(ds[Len(ds)])

IsNumeralOf(ds, n) ==
    /\ Len(ds) >= 1
    /\ \A i \in 1..Len(ds) : ds[i] \in {"0", "1", "2", "3", "4", "5", "6", "7", "8", "9"}
    /\ Len(ds) > 1 => ds[1] # "0"
    /\ NumeralValue(ds) = n

ChunkIdPrefix == docId \o <<"-", "c", "h", "u", "n", "k", "-">>

\* C10: the i-th chunk (from 0, in split order) has the id "<docId>-chunk-<i>" and the
\* sourceId docId; the ids of one document are pairwise distinct.
C10_ChunkIds ==
    pc = "mapped" =>
        /\ Len(docChunks) = Len(finalChunks)
        /\ \A n \in 1..Len(docChunks) :
              /\ Len(docChunks[n].id) > Len(ChunkIdPrefix)
              /\ SubSeq(docChunks[n].id, 1, Len(ChunkIdPrefix)) = ChunkIdPrefix
              /\ IsNumeralOf(SubSeq(docChunks[n].id, Len(ChunkIdPrefix) + 1,
                                    Len(docChunks[n].id)), n - 1)
              /\ docChunks[n].sourceId = docId
              /\ Contains(finalChunks[n], docChunks[n].content)
        /\ \A m, n \in 1..Len(docChunks) : m # n => docChunks[m].id # docChunks[n].id

\* C10's case: a document of more than ten chunks (two-digit indexes)
C10_Witness == pc = "mapped" /\ Len(docChunks) > 10

\* every word of the text fits in a chunk, so the text is cut at separators only
WordsFit == \A u \in Words(text) : u[2] - u[1] <= chunkSize

----------------------------------------------------------------------------
(* Properties of the retriever *)

ReturnedRetrieve == rpc = "returned"

\* the texts of the calls, and tokenize over them, evaluated once
CallTexts ==
    Queries \cup {c.content : c \in ChunkPool} \cup {FiveChunks[i].content : i \in 1..5}
        \cup {MatchCountChunks[i].content : i \in 1..2}

TokensOf == [t \in CallTexts |-> tokenize(t)]

\* the score of a chunk against the query of the call
Score(chunk) == calculateScore(TokensOf[query], TokensOf[chunk.content])

\* the ways the chunks of res can be taken from distinct positions of all: res[i] is
\* the chunk at position f[i]
Placements(res, all) ==
    {f \in [1..Len(res) -> 1..Len(all)] :
        /\ \A i, j \in 1..Len(res) : i # j => f[i] # f[j]
        /\ \A i \in 1..Len(res) : res[i] = all[f[i]]}

\* C12: retrieveRelevantChunks returns exactly min(topK, n) chunks, each taken from a
\* distinct position of the input; when topK >= n the result is a permutation of the input.
C12_ResultSize ==
    ReturnedRetrieve =>
        /\ Len(result) = Min(topK, Len(allChunks))
        /\ Placements(result, allChunks) # {}
        /\ topK >= Len(allChunks) =>
              \E f \in Placements(result, allChunks) :
                  \A p \in 1..Len(allChunks) : \E i \in 1..Len(result) : f[i] = p

\* C12's case: topK cuts a collection that holds the same chunk twice
C12_Witness ==
    /\ ReturnedRetrieve
    /\ Len(allChunks) = MaxChunks
    /\ 0 < topK /\ topK < Len(allChunks)
    /\ \E p, q \in 1..Len(allChunks) : p # q /\ allChunks[p] = allChunks[q]
    /\ \E p \in 1..Len(allChunks) : Score(allChunks[p]).num > 0

\* the positions of all that the placement f leaves out of the result
LeftOut(f, res, all) == {p \in 1..Len(all) : \A i \in 1..Len(res) : f[i] # p}

\* C13: the result is ordered by non-increasing score and is a true top-K: every input
\* chunk is scored, and no chunk left out has a score strictly greater than the score of a
\* returned chunk.
C13_TopKByScore ==
    (ReturnedRetrieve /\ Len(allChunks) > 0) =>
        /\ \A i, j \in 1..Len(result) : i < j => Minus(Score(result[i]), Score(result[j])) >= 0
        /\ Len(scoredChunks) = Len(allChunks)
        /\ Placements([i \in 1..Len(scoredChunks) |-> scoredChunks[i].chunk], allChunks) # {}
        /\ \A i \in 1..Len(scoredChunks) : scoredChunks[i].score = Score(scoredChunks[i].chunk)
        /\ \E f \in Placements(result, allChunks) :
              \A p \in LeftOut(f, result, allChunks) : \A i \in 1..Len(result) :
                  Minus(Score(allChunks[p]), Score(result[i])) <= 0

\* C13's case: three chunks of three different scores, the lowest first in the input, and
\* topK = 2 returns the other two, the best first
C13_Witness ==
    /\ ReturnedRetrieve
    /\ Len(allChunks) = 3 /\ topK = 2
    /\ Minus(Score(allChunks[1]), Score(allChunks[2])) < 0
    /\ Minus(Score(allChunks[2]), Score(allChunks[3])) < 0
    /\ Score(allChunks[2]).num > 0
    /\ result = <<allChunks[3], allChunks[2]>>

\* C14: ties are broken by input order: of two chunks of equal score, the one earlier in
\* the input is ranked earlier, so the returned chunks of equal score keep their input
\* order, and a chunk cut off by topK comes later in the input than every returned
\* chunk of the same score.
C14_TiesKeepInputOrder ==
    ReturnedRetrieve =>
        \E f \in Placements(result, allChunks) :
            /\ \A i, j \in 1..Len(result) :
                  (i < j /\ Score(result[i]) = Score(result[j])) => f[i] < f[j]
            /\ \A p \in LeftOut(f, result, allChunks) : \A i \in 1..Len(result) :
                  Score(allChunks[p]) = Score(result[i]) => f[i] < p

\* C14's case: the second of three chunks scores highest and the other two, different
\* chunks, tie; topK = 2 returns the second and the first, and cuts the third off
C14_Witness ==
    /\ ReturnedRetrieve
    /\ Len(allChunks) = 3 /\ topK = 2
    /\ Minus(Score(allChunks[2]), Score(allChunks[1])) > 0
    /\ Score(allChunks[1]) = Score(allChunks[3])
    /\ allChunks[1] # allChunks[3]
    /\ result = <<allChunks[2], allChunks[1]>>

\* a bound on the steps retrieveRelevantChunks has left at position at
RetrieveStepsLeft(at, scored) ==
    CASE at = "call" -> Len(allChunks) + 3
      [] at = "map" -> Len(allChunks) - Len(scored) + 2
      [] at = "slice" -> 1
      [] OTHER -> 0

\* C15: retrieveRelevantChunks is total: from every call (the empty query, the empty
\* collection and topK = 0 included) it runs to its return, no statement failing, and it
\* returns [] for the empty collection and for topK = 0.
C15_Total ==
    /\ [][RetrieveStepsLeft(rpc', scoredChunks') < RetrieveStepsLeft(rpc, scoredChunks)]_vars
    /\ [](rpc \in {"call", "map", "slice", "returned"})
    /\ [](~ReturnedRetrieve => CanStepRetrieve)
    /\ []((ReturnedRetrieve /\ (Len(allChunks) = 0 \/ topK = 0)) => result = <<>>)

\* C15's case: topK = 0 with a query and chunks that share tokens
C15_Witness ==
    /\ ReturnedRetrieve
    /\ topK = 0
    /\ Len(allChunks) >= 2
    /\ \E p \in 1..Len(allChunks) : Score(allChunks[p]).num > 0
    /\ result = <<>>

\* the chunk shares a token with the query of the call
SharesToken(chunk) == TokensOf[query] \cap TokensOf[chunk.content] # {}

\* C16: a chunk that shares a token with the query scores strictly above 0 and a chunk
\* that shares none scores 0, so every chunk that shares a token is ranked before every
\* chunk that shares none: none of the first kind is cut off while one of the second is
\* returned.  Scenario B: retrieve("connection refused port 8080", [c1, c2], 1) = [c1].
C16_OverlapRanksFirst ==
    /\ \A i \in 1..Len(scoredChunks) :
          /\ SharesToken(scoredChunks[i].chunk) => scoredChunks[i].score.num > 0
          /\ ~SharesToken(scoredChunks[i].chunk) => scoredChunks[i].score.num = 0
    /\ rpc \in {"slice", "returned"} =>
          \A i, j \in 1..Len(scoredChunks) :
              (SharesToken(scoredChunks[i].chunk) /\ ~SharesToken(scoredChunks[j].chunk)) => i < j
    /\ ReturnedRetrieve =>
          \E f \in Placements(result, allChunks) :
              \A p \in LeftOut(f, result, allChunks) : \A i \in 1..Len(result) :
                  SharesToken(allChunks[p]) => SharesToken(result[i])
    /\ (ReturnedRetrieve /\ query = QueryScenarioB /\ topK = 1
            /\ allChunks = <<ChunkC1, ChunkC2>>) => result = <<ChunkC1>>

\* C16's case: the chunk that shares a token comes second in the input and is the one
\* returned; its score is below 1
C16_Witness ==
    /\ ReturnedRetrieve
    /\ query = QueryScenarioB /\ topK = 1
    /\ allChunks = <<ChunkC2, ChunkC1>>
    /\ result = <<ChunkC1>>
    /\ Score(ChunkC1).num > 0 /\ Score(ChunkC1).num < Score(ChunkC1).den
    /\ Score(ChunkC2).num = 0

\* t is made only of words of length <= 2 and of punctuation (the empty text included)
ShortWordsOnly(t) ==
    LET words == SplitSpace(t)
    IN  \A j \in 1..Len(words) :
            \/ Len(words[j]) <= 2
            \/ \A n \in 1..Len(words[j]) : ~IsWordChar(words[j][n])

\* C17: a query made only of words of length <= 2 and punctuation has the empty token
\* set; for a query of empty token set every chunk scores 0 and the result is the first
\* min(topK, n) chunks of the input in their order.  Scenario C: retrieve("", chunks, 3)
\* returns the first 3 chunks.
C17_EmptyQueryKeepsInputOrder ==
    /\ ShortWordsOnly(query) => TokensOf[query] = {}
    /\ TokensOf[query] = {} =>
          /\ \A i \in 1..Len(scoredChunks) : scoredChunks[i].score.num = 0
          /\ ReturnedRetrieve =>
                result = SubSeq(allChunks, 1, Min(topK, Len(allChunks)))
    /\ (ReturnedRetrieve /\ query = QueryEmpty /\ topK = 3 /\ Len(allChunks) >= 3) =>
          result = SubSeq(allChunks, 1, 3)

\* C17's case: Scenario C on a collection of five chunks
C17_Witness ==
    /\ ReturnedRetrieve
    /\ query = QueryEmpty /\ topK = 3
    /\ allChunks = FiveChunks
    /\ result = SubSeq(FiveChunks, 1, 3)

\* C18: for the token sets Q of the query and C of a chunk, calculateScore returns
\* |Q \cap C| / (|Q| + |C| - |Q \cap C|), and 0 when both are empty (the divisor is then 1);
\* so 0 <= score <= 1, and score = 1 exactly when Q = C and Q is not empty.
C18_ScoreIsJaccard ==
    \A i \in 1..Len(scoredChunks) :
        LET Q == TokensOf[query]
            C == TokensOf[scoredChunks[i].chunk.content]
            both == Cardinality(Q \cap C)
            divisor == Cardinality(Q) + Cardinality(C) - both
            score == scoredChunks[i].score
        IN  /\ divisor > 0 => score.num * divisor = both * score.den
            /\ divisor = 0 => score.num = 0
            /\ score.den >= 1 /\ 0 <= score.num /\ score.num <= score.den
            /\ score.num = score.den <=> (Q = C /\ Q # {})

\* C18's case: a chunk that shares two tokens with the query and has others: 2 / 5
C18_Witness ==
    \E i \in 1..Len(scoredChunks) :
        /\ Cardinality(TokensOf[query] \cap TokensOf[scoredChunks[i].chunk.content]) = 2
        /\ Cardinality(TokensOf[query] \cup TokensOf[scoredChunks[i].chunk.content]) = 5
        /\ scoredChunks[i].score = [num |-> 2, den |-> 5]

\* the words of t: the non-empty pieces between white space
WordsOf(t) == {w \in {SplitSpace(t)[j] : j \in 1..Len(SplitSpace(t))} : w # <<>>}

\* t with one of its words repeated, at the end or at the start
RepeatWord(t) == {t \o <<SP>> \o w : w \in WordsOf(t)} \cup {w \o <<SP>> \o t : w \in WordsOf(t)}

ShortWords == {<<"a">>, <<"t", "o">>, <<"I", "P">>}

\* t with a word of length <= 2 added, at the end or at the start
AddShortWord(t) == {t \o <<SP>> \o w : w \in ShortWords} \cup {w \o <<SP>> \o t : w \in ShortWords}

RECURSIVE JoinWords(_)
JoinWords(ws) ==
    IF ws = <<>> THEN <<>>
    ELSE IF Len(ws) = 1 THEN ws[1]
    ELSE ws[1] \o <<SP>> \o JoinWords(Tail(ws))

\* t with one of its words of length <= 2 removed
RemoveShortWord(t) ==
    LET ws == SplitSpace(t)
    IN  {JoinWords(SubSeq(ws, 1, j - 1) \o SubSeq(ws, j + 1, Len(ws))) :
            j \in {n \in 1..Len(ws) : Len(ws[n]) >= 1 /\ Len(ws[n]) <= 2}}

\* a code unit in upper case, for the letters a-z
UpperCaseOf(c) ==
    IF IsLowerCase(c) THEN UpperCaseLetters[CHOOSE i \in 1..26 : LowerCaseLetters[i] = c] ELSE c

\* the case of the letters a-z and A-Z changed: all to upper case, all to lower case, or
\* the case of one letter switched
ChangeCaseAZ(t) ==
    {[i \in 1..Len(t) |-> UpperCaseOf(t[i])], ToLowerCase(t)}
    \cup {[t EXCEPT ![n] = IF IsLowerCase(t[n]) THEN UpperCaseOf(t[n]) ELSE LowerCaseOf(t[n])] :
            n \in 1..Len(t)}

\* String.prototype.toUpperCase(): the upper case of U+00DF is "SS"
RECURSIVE ToUpperCase(_)
ToUpperCase(t) ==
    IF t = <<>> THEN <<>>
    ELSE (IF Head(t) = Eszett THEN <<"S", "S">> ELSE <<UpperCaseOf(Head(t))>>)
         \o ToUpperCase(Tail(t))

\* the case of any letter changed
ChangeCase(t) == ChangeCaseAZ(t) \cup {ToUpperCase(t)}

\* the token sets of the variants of the texts of the calls, evaluated once
VariantTokensAZ ==
    [t \in CallTexts |->
        {tokenize(v) : v \in RepeatWord(t) \cup AddShortWord(t) \cup RemoveShortWord(t)
                                \cup ChangeCaseAZ(t)}]

VariantTokens ==
    [t \in CallTexts |-> VariantTokensAZ[t] \cup {tokenize(v) : v \in ChangeCase(t)}]

\* the positions retrieveRelevantChunks returns, in order, for the token set qTokens of the
\* query, the token sets cTokens of the chunks and topK = k
RankedPositions(qTokens, cTokens, k) ==
    LET scored == [p \in 1..Len(cTokens) |->
                      [chunk |-> p, score |-> calculateScore(qTokens, cTokens[p])]]
        top == TopSlice(SortByScore(scored), k)
    IN  [i \in 1..Len(top) |-> top[i].chunk]

\* the result is the same for every variant of the query and of each chunk's content
\* whose token sets variants gives
SameResultFor(variants) ==
    LET cTokens == [p \in 1..Len(allChunks) |-> TokensOf[allChunks[p].content]]
        positions == RankedPositions(TokensOf[query], cTokens, topK)
    IN  /\ result = [i \in 1..Len(positions) |-> allChunks[positions[i]]]
        /\ \A qTokens \in variants[query] :
              RankedPositions(qTokens, cTokens, topK) = positions
        /\ \A p \in 1..Len(allChunks) : \A tokens \in variants[allChunks[p].content] :
              RankedPositions(TokensOf[query], [cTokens EXCEPT ![p] = tokens], topK) = positions

\* C19, as stated: the result does not change when a word of the query or of a chunk is
\* repeated, when letter case is changed, or when words of length <= 2 are added or removed.
C19_SameResultAnyCase == ReturnedRetrieve => SameResultFor(VariantTokens)

\* C19, amended: ... when the case of letters a-z, A-Z is changed ...
C19_SameResultCaseAZ == ReturnedRetrieve => SameResultFor(VariantTokensAZ)

\* C19's case: a query with a repeated word in two cases, and the chunk it matches, in
\* another case again, is returned from the second position
C19_Witness ==
    /\ ReturnedRetrieve
    /\ query = QueryRepeat /\ topK = 1
    /\ Len(allChunks) >= 2
    /\ allChunks[2] = ChunkC1 /\ result = <<ChunkC1>>
    /\ Cardinality(RepeatWord(query) \cup ChangeCaseAZ(query)) > 4

\* C20: retrieveRelevantChunks has no side effect on its inputs: no step changes the
\* query, topK or the input sequence (its length, order and chunks); the sort reorders
\* the separate array of candidates; and every returned chunk is a chunk of the input,
\* unchanged.
C20_InputsUnchanged ==
    /\ [][allChunks' = allChunks /\ query' = query /\ topK' = topK]_vars
    /\ [](\A i \in 1..Len(scoredChunks) :
              \E p \in 1..Len(allChunks) : scoredChunks[i].chunk = allChunks[p])
    /\ [](ReturnedRetrieve =>
              \A i \in 1..Len(result) : \E p \in 1..Len(allChunks) : result[i] = allChunks[p])

\* C20's case: the sort has moved the last chunk of the input, whose content has upper
\* case letters and punctuation, to the front of the candidates, and it is returned
C20_Witness ==
    /\ ReturnedRetrieve
    /\ Len(allChunks) = 3 /\ topK >= 1
    /\ allChunks[1] # allChunks[3]
    /\ scoredChunks[1].chunk = allChunks[3]
    /\ result[1] = allChunks[3]
    /\ ToLowerCase(allChunks[3].content) # allChunks[3].content
    /\ [p \in 1..3 |-> scoredChunks[p].chunk] # allChunks

-----------------------------------------------------------------------------
(* The scoring of the API reference (docs/API.md) against search.ts *)

\* String.prototype.includes: t occurs in s as a substring
Includes(s, t) == \E i \in 0..(Len(s) - Len(t)) : SubSeq(s, i + 1, i + Len(t)) = t

\* docs/API.md, calculateRelevance: the number of the query's terms (lower-cased, split at
\* white space, empty pieces dropped) that occur in the lower-cased content
calculateRelevance(q, content) ==
    LET pieces == SplitSpace(ToLowerCase(q))
        queryTerms == SelectSeq(pieces, LAMBDA term : Len(term) > 0)
        contentLower == ToLowerCase(content)
    IN  Cardinality({i \in 1..Len(queryTerms) : Includes(contentLower, queryTerms[i])})

\* the documented match counts of the texts of the calls, evaluated once
RelevanceOf == [q \in Queries |-> [t \in CallTexts |-> calculateRelevance(q, t)]]

\* the number of the query's tokens (search.ts, tokenize) among the chunk's tokens
Overlap(chunk) == Cardinality(TokensOf[query] \cap TokensOf[chunk.content])

\* chunk a matches more of the query than chunk b, by the documented count and by the
\* count of common tokens
MatchesMore(a, b) ==
    /\ RelevanceOf[query][a.content] > RelevanceOf[query][b.content]
    /\ Overlap(a) > Overlap(b)

\* C21: the result is the top K by match count: a chunk that holds more of the query's
\* terms than another chunk is never ranked after it, and is never left out when the other
\* is returned. (The code ranks by Jaccard similarity; TLC refutes this.)
C21_RankedByMatchCount ==
    ReturnedRetrieve =>
        \E f \in Placements(result, allChunks) :
            /\ \A i, j \in 1..Len(result) : i < j => ~MatchesMore(result[j], result[i])
            /\ \A p \in LeftOut(f, result, allChunks) : \A i \in 1..Len(result) :
                  ~MatchesMore(allChunks[p], result[i])

-----------------------------------------------------------------------------
(* The greedy reassembly of one separator level *)

\* the tokens of the activation fr: its text split at the separator of its level
TokensOfFrame(fr) == Splits(fr.currentText, separators[fr.separatorIndex + 1])

\* chunk g of the activation fr is one of its tokens, unjoined
IsSingleToken(fr, g) ==
    LET tokens == TokensOfFrame(fr)
    IN  \E n \in 1..Len(tokens) : tokens[n] = g

\* the activations that have split and recombined their text
Recombined == {d \in 1..Len(stack) : stack[d].at = "process"}

\* C26: in the reassembly of one separator level a token is appended only while the
\* accumulator, the separator and the token together stay strictly shorter than chunkSize:
\* every chunk that is not a single token has length <= chunkSize - 1, that is, a chunk
\* of length chunkSize or more is a single token; a text that fits in chunkSize is not
\* reassembled at all and is returned whole.
C26_JoinedStrictlyShorter ==
    /\ \A d \in Recombined : \A n \in 1..Len(stack[d].goodSplits) :
          LET g == stack[d].goodSplits[n]
          IN  Len(g) >= chunkSize => IsSingleToken(stack[d], g)
    /\ (Returned /\ Len(text) <= chunkSize) => finalChunks = <<text>>

\* C26's case: a chunk joined from two or more tokens has length chunkSize - 1, and the
\* token after it, which would have brought it to chunkSize or more, starts the next chunk
C26_Witness ==
    \E d \in Recombined : \E n \in 1..(Len(stack[d].goodSplits) - 1) :
        LET g == stack[d].goodSplits[n]
            sep == separators[stack[d].separatorIndex + 1]
        IN  /\ ~IsSingleToken(stack[d], g)
            /\ Len(g) = chunkSize - 1
            /\ Len(g \o sep \o stack[d].goodSplits[n + 1]) >= chunkSize
            /\ IsSingleToken(stack[d], stack[d].goodSplits[n + 1])

-----------------------------------------------------------------------------
(* The functions the application calls, as functions of their arguments *)

\* textProcessor.ts lines 29-34, for a positive step: the windows at 0, step, 2*step, ...
HardWindows(currentText, size, overlap) ==
    LET step == HardStep(size, overlap)
        count == (Len(currentText) + step - 1) \div step
    IN  [n \in 1..count |-> Slice(currentText, (n - 1) * step, (n - 1) * step + size)]

\* textProcessor.ts lines 22-81: splitText(currentText, separatorIndex), for chunkSize =
\* size and chunkOverlap = overlap with a positive step
RECURSIVE SplitTextOf(_, _, _, _)
SplitTextOf(currentText, separatorIndex, size, overlap) ==
    IF Len(currentText) <= size THEN <<currentText>>
    ELSE IF separatorIndex >= Len(separators) THEN HardWindows(currentText, size, overlap)
    ELSE LET goodSplits == GoodSplits(currentText, separatorIndex, size)
         IN  Concat([k \in 1..Len(goodSplits) |->
                        IF TooBig(goodSplits[k], size)
                        THEN SplitTextOf(goodSplits[k], separatorIndex + 1, size, overlap)
                        ELSE <<goodSplits[k]>>])

\* textProcessor.ts lines 90-101: createChunksFromDoc(docId, content), with the defaults
\* of chunkSize and chunkOverlap
CreateChunksFromDoc(id, content) ==
    MapChunks(id, SplitTextOf(content, 0, DefaultChunkSize, DefaultChunkOverlap))

\* search.ts lines 7-26: retrieveRelevantChunks(q, all, k)
RetrieveRelevantChunks(q, all, k) ==
    IF Len(all) = 0 THEN <<>>
    ELSE LET qTokens == tokenize(q)
             scored == [p \in 1..Len(all) |-> ScoredCandidate(all[p], qTokens)]
             top == TopSlice(SortByScore(scored), k)
         IN  [i \in 1..Len(top) |-> top[i].chunk]

\* the state machines of Spec and SpecRetrieve return what these functions return
FunctionsAgree ==
    /\ (Returned /\ HardStep(chunkSize, chunkOverlap) > 0) =>
            finalChunks = SplitTextOf(text, 0, chunkSize, chunkOverlap)
    /\ (pc = "mapped" /\ caller = "doc") => docChunks = CreateChunksFromDoc(docId, text)
    /\ ReturnedRetrieve => result = RetrieveRelevantChunks(query, allChunks, topK)

-----------------------------------------------------------------------------
(* The uses of the application: what is typed, and what the model answers *)

\* a content of two chunks: 498 characters, a paragraph break, and the text of c1
TwoParagraphs == Rep("a", 498) \o <<NL, NL>> \o ContentC1

\* the form of DocManager: the titles and contents typed into it while the pipeline is used
Titles == {"", "Runbook"}
Contents == {<<>>, ContentMysql}

\* the titles and contents typed into the form when only the knowledge base is used: also
\* " ", and a content of two chunks
FormTitles == {"", "Runbook", "Notes"}
FormContents == {<<>>, <<SP>>, ContentMysql, TwoParagraphs}

\* the logs typed into the textarea: "", " " and "db down"
RawLogs == {<<>>, <<SP>>, <<"d", "b", SP, "d", "o", "w", "n">>}

\* the responses of the model to cleanLogToQuery: no text, and " mysql\n"
CleanResponses == {[text |-> <<>>], [text |-> <<<<SP, "m", "y", "s", "q", "l", NL>>>>]}

\* the responses of the model to generateRAGSolution: no text, and a solution
GenerateResponses == {[text |-> <<>>], [text |-> <<"Restart the pool.">>]}

\* the errors generateContent rejects with
Errors == {[message |-> ""], [message |-> "503 Service Unavailable"]}

-----------------------------------------------------------------------------
(* The application: the knowledge base (components/DocManager.tsx) *)

\* DocManager.tsx line 19: `doc-${Date.now()}`
DocIdAt(time) == <<"d", "o", "c", "-">> \o ToDecimal(time)

\* DocManager.tsx line 20: createChunksFromDoc(docId, newContent) for every time and
\* content of the model, evaluated once
ChunksAtIngestion ==
    [time \in 0..MaxClock |->
        [content \in Contents \cup FormContents |->
            CreateChunksFromDoc(DocIdAt(time), content)]]

\* DocManager.tsx lines 22-28: the KnowledgeDoc of handleAddDoc
KnowledgeDoc(time, title, content) ==
    [id |-> DocIdAt(time), title |-> title, content |-> content,
     chunks |-> ChunksAtIngestion[time][content], uploadDate |-> time]

\* DocManager.tsx line 37: prev.filter(d => d.id !== id)
FilterOutId(prev, id) == SelectSeq(prev, LAMBDA d : d.id # id)

\* time passes: the clock shows the next millisecond
Tick ==
    /\ now < MaxClock
    /\ now' = now + 1
    /\ UNCHANGED <<chunkerVars, retrieverVars, apiKey, docs, rawLog, isProcessing, errorMsg,
                   ragResult, steps, runs>>

\* DocManager.tsx lines 16-34: handleAddDoc with the form holding newTitle and newContent
handleAddDoc(newTitle, newContent) ==
    /\ Len(docs) < MaxDocs
    /\ IF newTitle = "" \/ newContent = <<>>
       THEN UNCHANGED docs
       ELSE docs' = Append(docs, KnowledgeDoc(now, newTitle, newContent))
    /\ UNCHANGED <<chunkerVars, retrieverVars, apiKey, now, rawLog, isProcessing, errorMsg,
                   ragResult, steps, runs>>

\* DocManager.tsx lines 36-38: deleteDoc(id), from the delete button of a listed document
deleteDoc(id) ==
    /\ \E i \in 1..Len(docs) : docs[i].id = id
    /\ docs' = FilterOutId(docs, id)
    /\ UNCHANGED <<chunkerVars, retrieverVars, apiKey, now, rawLog, isProcessing, errorMsg,
                   ragResult, steps, runs>>

-----------------------------------------------------------------------------
(* The application: the pipeline (App.tsx, services/gemini.ts) *)

\* App.tsx lines 26-28: the updater of updateStep(id, status); step id is at position id
updateStep(prev, id, status) == [k \in 1..4 |-> IF k = id THEN status ELSE prev[k]]

\* App.tsx line 42: the updater that resets the steps
ResetSteps(prev) == [k \in 1..4 |-> "pending"]

\* Array.prototype.findIndex(s => s.status === 'loading'): 0-based, -1 if none
FindIndexLoading(st) ==
    IF \E k \in 1..4 : st[k] = "loading"
    THEN (CHOOSE k \in 1..4 : st[k] = "loading" /\ \A j \in 1..(k - 1) : st[j] # "loading") - 1
    ELSE -1

\* App.tsx line 58: docs.flatMap(d => d.chunks)
FlatMapChunks(ds) == Concat([i \in 1..Len(ds) |-> ds[i].chunks])

\* "Error parsing log"
ErrorParsingLog ==
    <<"E", "r", "r", "o", "r", SP, "p", "a", "r", "s", "i", "n", "g", SP, "l", "o", "g">>

\* gemini.ts line 38: response.text?.trim() || "Error parsing log"; text is <<>> for
\* undefined and <<string>> otherwise
CleanedQuery(response) ==
    IF response.text # <<>> /\ Trim(response.text[1]) # <<>>
    THEN Trim(response.text[1])
    ELSE ErrorParsingLog

\* gemini.ts line 83: response.text || "Unable to generate solution."; the solution and
\* the messages of errors are not taken apart anywhere, they are strings as a whole
SolutionOf(response) ==
    IF response.text # <<>> /\ response.text[1] # ""
    THEN response.text[1]
    ELSE "Unable to generate solution."

\* mutant of MessageOf: no default for an error without message
MessageOfNoDefault(err) == err.message

\* App.tsx line 78: err.message || "An unexpected error occurred."
MessageOf(err) == IF err.message # "" THEN err.message ELSE "An unexpected error occurred."

\* mutant of StartDisabled: the control is not disabled while a run is in progress
StartDisabledEmptyOnly == rawLog = <<>>

\* App.tsx line 134: disabled={isProcessing || !rawLog}
StartDisabled == isProcessing \/ rawLog = <<>>

\* an activation of handleRunAnalysis at line 47: the values of rawLog, docs and steps are
\* those of the render whose handler was clicked
Activation ==
    [at |-> "ingestDelay", rawLog |-> rawLog, docs |-> docs, steps |-> steps,
     searchQuery |-> <<>>, retrievedChunks |-> <<>>, calls |-> <<>>]

\* an activation that has ended: its values are gone, the names and outcomes of its calls
\* are remembered
Ended(calls) ==
    [at |-> "ended", rawLog |-> <<>>, docs |-> <<>>, steps |-> InitialSteps,
     searchQuery |-> <<>>, retrievedChunks |-> <<>>,
     calls |-> [n \in 1..Len(calls) |-> [calls[n] EXCEPT !.args = <<>>, !.value = <<>>]]]

\* a call made by an activation: its function, arguments, and outcome so far
Call(fn, args) == [fn |-> fn, args |-> args, outcome |-> "pending", value |-> <<>>]

\* the last call of the activation has returned v / has failed
Settle(calls, outcome, v) ==
    [calls EXCEPT ![Len(calls)] = [calls[Len(calls)] EXCEPT !.outcome = outcome, !.value = v]]

SetRun(r, run) == runs' = [runs EXCEPT ![r] = run]

\* App.tsx line 126: onChange of the textarea
setRawLog(value) ==
    /\ rawLog' = value
    /\ UNCHANGED <<chunkerVars, retrieverVars, apiKey, now, docs, isProcessing, errorMsg,
                   ragResult, steps, runs>>

\* App.tsx lines 30-47: a click on the start control; handleRunAnalysis up to its first await
handleRunAnalysis ==
    /\ ~StartDisabled
    /\ Len(runs) < MaxRuns
    /\ IF Trim(rawLog) = <<>>
       THEN UNCHANGED <<isProcessing, errorMsg, ragResult, steps, runs>>
       ELSE IF ~apiKey
       THEN /\ errorMsg' = <<"Missing API Key. Please ensure the environment variable is set.">>
            /\ UNCHANGED <<isProcessing, ragResult, steps, runs>>
       ELSE /\ isProcessing' = TRUE
            /\ errorMsg' = <<>>
            /\ ragResult' = <<>>
            /\ steps' = updateStep(ResetSteps(steps), 1, "loading")
            /\ runs' = Append(runs, Activation)
    /\ UNCHANGED <<chunkerVars, retrieverVars, apiKey, now, docs, rawLog>>

\* App.tsx lines 47-52: the ingest delay is over; cleanLogToQuery is called
AfterIngestDelay(r) ==
    /\ runs[r].at = "ingestDelay"
    /\ steps' = updateStep(updateStep(steps, 1, "complete"), 2, "loading")
    /\ SetRun(r, [runs[r] EXCEPT
                    !.at = "cleaning",
                    !.calls = Append(@, Call("cleanLogToQuery", <<runs[r].rawLog>>))])
    /\ UNCHANGED <<chunkerVars, retrieverVars, apiKey, now, docs, rawLog, isProcessing,
                   errorMsg, ragResult>>

\* App.tsx lines 76-85: catch and finally
CatchAndFinally(r, err) ==
    LET currentStepIdx == FindIndexLoading(runs[r].steps)
    IN  /\ errorMsg' = <<MessageOf(err)>>
        /\ steps' = IF currentStepIdx # -1
                    THEN updateStep(steps, currentStepIdx + 1, "error")
                    ELSE steps
        /\ isProcessing' = FALSE
        /\ SetRun(r, Ended(Settle(runs[r].calls, "failed", <<>>)))
        /\ UNCHANGED ragResult

\* gemini.ts lines 33-38, App.tsx lines 52-60: cleanLogToQuery returns; retrieval
CleanReturns(r, response) ==
    LET searchQuery == CleanedQuery(response)
        flattened == FlatMapChunks(runs[r].docs)
        retrievedChunks == RetrieveRelevantChunks(searchQuery, flattened, 3)
    IN  /\ runs[r].at = "cleaning"
        /\ steps' = updateStep(updateStep(steps, 2, "complete"), 3, "loading")
        /\ SetRun(r, [runs[r] EXCEPT
                        !.at = "searchDelay",
                        !.searchQuery = searchQuery,
                        !.retrievedChunks = retrievedChunks,
                        !.calls = Append(Settle(@, "returned", searchQuery),
                                         [fn |-> "retrieveRelevantChunks",
                                          args |-> <<searchQuery, flattened, 3>>,
                                          outcome |-> "returned",
                                          value |-> retrievedChunks])])
        /\ UNCHANGED <<chunkerVars, retrieverVars, apiKey, now, docs, rawLog, isProcessing,
                       errorMsg, ragResult>>

\* gemini.ts lines 39-42, App.tsx lines 76-85: cleanLogToQuery fails
CleanFails(r, err) ==
    /\ runs[r].at = "cleaning"
    /\ CatchAndFinally(r, err)
    /\ UNCHANGED <<chunkerVars, retrieverVars, apiKey, now, docs, rawLog>>

\* mutant of AfterSearchDelay: generateRAGSolution is called with the raw log
AfterSearchDelayRawLog(r) ==
    /\ runs[r].at = "searchDelay"
    /\ steps' = updateStep(updateStep(steps, 3, "complete"), 4, "loading")
    /\ SetRun(r, [runs[r] EXCEPT
                    !.at = "generating",
                    !.calls = Append(@, Call("generateRAGSolution",
                                             <<runs[r].rawLog, runs[r].retrievedChunks>>))])
    /\ UNCHANGED <<chunkerVars, retrieverVars, apiKey, now, docs, rawLog, isProcessing,
                   errorMsg, ragResult>>

\* App.tsx lines 60-65: the search delay is over; generateRAGSolution is called
AfterSearchDelay(r) ==
    /\ runs[r].at = "searchDelay"
    /\ steps' = updateStep(updateStep(steps, 3, "complete"), 4, "loading")
    /\ SetRun(r, [runs[r] EXCEPT
                    !.at = "generating",
                    !.calls = Append(@, Call("generateRAGSolution",
                                             <<runs[r].searchQuery, runs[r].retrievedChunks>>))])
    /\ UNCHANGED <<chunkerVars, retrieverVars, apiKey, now, docs, rawLog, isProcessing,
                   errorMsg, ragResult>>

\* gemini.ts lines 78-83, App.tsx lines 65-74, 83-85: generateRAGSolution returns
GenerateReturns(r, response) ==
    LET solution == SolutionOf(response)
    IN  /\ runs[r].at = "generating"
        /\ steps' = updateStep(steps, 4, "complete")
        /\ ragResult' = <<[originalLog |-> runs[r].rawLog,
                           searchQuery |-> runs[r].searchQuery,
                           retrievedChunks |-> runs[r].retrievedChunks,
                           solution |-> solution,
                           timestamp |-> now]>>
        /\ isProcessing' = FALSE
        /\ SetRun(r, Ended(Settle(runs[r].calls, "returned", <<>>)))
        /\ UNCHANGED <<chunkerVars, retrieverVars, apiKey, now, docs, rawLog, errorMsg>>

\* gemini.ts lines 84-87, App.tsx lines 76-85: generateRAGSolution fails
GenerateFails(r, err) ==
    /\ runs[r].at = "generating"
    /\ CatchAndFinally(r, err)
    /\ UNCHANGED <<chunkerVars, retrieverVars, apiKey, now, docs, rawLog>>

InitApp ==
    /\ ChunkerIdle
    /\ RetrieverIdle
    /\ apiKey \in BOOLEAN
    /\ now = 0
    /\ docs = <<>> /\ rawLog = <<>>
    /\ isProcessing = FALSE /\ errorMsg = <<>> /\ ragResult = <<>>
    /\ steps = InitialSteps
    /\ runs = <<>>

NextApp ==
    \/ Tick
    \/ \E newTitle \in Titles, newContent \in Contents : handleAddDoc(newTitle, newContent)
    \/ \E i \in 1..Len(docs) : deleteDoc(docs[i].id)
    \/ \E value \in RawLogs : setRawLog(value)
    \/ handleRunAnalysis
    \/ \E r \in 1..Len(runs) : AfterIngestDelay(r)
    \/ \E r \in 1..Len(runs), response \in CleanResponses : CleanReturns(r, response)
    \/ \E r \in 1..Len(runs), err \in Errors : CleanFails(r, err)
    \/ \E r \in 1..Len(runs) : AfterSearchDelay(r)
    \/ \E r \in 1..Len(runs), response \in GenerateResponses : GenerateReturns(r, response)
    \/ \E r \in 1..Len(runs), err \in Errors : GenerateFails(r, err)

SpecApp == InitApp /\ [][NextApp]_vars

\* the knowledge base alone: documents are ingested and deleted, no pipeline run
NextDocs ==
    \/ Tick
    \/ \E newTitle \in FormTitles, newContent \in FormContents :
          handleAddDoc(newTitle, newContent)
    \/ \E i \in 1..Len(docs) : deleteDoc(docs[i].id)

SpecDocs == InitApp /\ [][NextDocs]_vars

-----------------------------------------------------------------------------
(* Properties of the knowledge base *)

\* every chunk of the collection ds is held by a document of ds, was created at the
\* ingestion of that document's content, and names that document as its source
NoOrphanedChunk(ds) ==
    \A i \in 1..Len(ds) :
        /\ ds[i].chunks = CreateChunksFromDoc(ds[i].id, ds[i].content)
        /\ \A n \in 1..Len(ds[i].chunks) : ds[i].chunks[n].sourceId = ds[i].id

\* the sequence s without its element at position i
RemoveAt(s, i) == SubSeq(s, 1, i - 1) \o SubSeq(s, i + 1, Len(s))

\* ds1 is ds0 without one document; every other document is left as it was
OneDocumentRemoved(ds0, ds1) == \E i \in 1..Len(ds0) : ds1 = RemoveAt(ds0, i)

\* C22: after every ingestion and deletion the chunks of the collection are those created
\* at ingestion of the documents present, each with its document's id as sourceId, and a
\* deletion removes one document with its chunks and leaves every other document and its
\* chunks unchanged. (Two documents ingested in the same millisecond have the same id and
\* are deleted together; TLC refutes this.)
C22_NoOrphansDeleteOne ==
    [][/\ NoOrphanedChunk(docs')
       /\ Len(docs') < Len(docs) => OneDocumentRemoved(docs, docs')]_vars

\* C30: the ids of the documents of the collection are pairwise distinct, and so are the
\* ids of the chunks of the whole collection. (Date.now() is the same for two ingestions
\* in one millisecond; TLC refutes this.)
C30_IdsPairwiseDistinct ==
    /\ \A i, j \in 1..Len(docs) : i # j => docs[i].id # docs[j].id
    /\ LET all == FlatMapChunks(docs)
       IN  \A p, q \in 1..Len(all) : p # q => all[p].id # all[q].id

-----------------------------------------------------------------------------
(* Properties of the pipeline *)

\* the call of retrieveRelevantChunks an activation has made
RetrievalCall(run) == run.calls[2]

\* C24: retrieveRelevantChunks is called on the collection as it stands when the retrieval
\* step starts: the chunk list it receives is the flattening, in document order, of docs
\* at that moment, also when documents were ingested or deleted since the run started.
\* (The handler reads the docs of the render it was created in; TLC refutes this.)
C24_RetrievalSeesCurrentDocs ==
    [][\A r \in 1..Len(runs) :
          (runs[r].at = "cleaning" /\ runs'[r].at = "searchDelay") =>
              /\ RetrievalCall(runs'[r]).fn = "retrieveRelevantChunks"
              /\ RetrievalCall(runs'[r]).args[2] = FlatMapChunks(docs)]_vars

\* an activation of handleRunAnalysis is between line 37 and its finally block
RunInProgress == \E r \in 1..Len(runs) : runs[r].at # "ended"

\* C27: when an external call fails, the step that was 'loading' is marked 'error': once
\* the run has ended no step is left 'loading', in the first run and in every later one.
\* (The catch block looks for the loading step in the steps of the render the handler was
\* created in; TLC refutes this.)
C27_NoStepLeftLoading ==
    ~RunInProgress => \A k \in 1..4 : steps[k] # "loading"

\* at most one step is 'loading', and the steps before it are 'complete'
StepsInOrder(st) ==
    /\ \A j, k \in 1..4 : (st[j] = "loading" /\ st[k] = "loading") => j = k
    /\ \A k \in 1..4 : st[k] = "loading" => \A j \in 1..(k - 1) : st[j] = "complete"

\* no step of st0 that is 'complete' has another status in st1
CompleteStays(st0, st1) == \A k \in 1..4 : st0[k] = "complete" => st1[k] = "complete"

\* C28: during a run the steps advance in order: at most one step is 'loading', a step is
\* 'loading' only when the steps before it are 'complete', a 'complete' step stays
\* 'complete' until the run has ended, and result is set only when all four steps are
\* 'complete'. (In a run after a failed run the catch block marks a 'complete' step
\* 'error'; TLC refutes this.)
C28_StepsAdvanceInOrder ==
    [][/\ RunInProgress => StepsInOrder(steps)
       /\ RunInProgress => CompleteStays(steps, steps')
       /\ ragResult' # <<>> => \A k \in 1..4 : steps'[k] = "complete"]_vars

\* the activations in progress
InProgress == {r \in 1..Len(runs) : runs[r].at # "ended"}

\* C29: at most one pipeline run is in progress at any time: isProcessing is true exactly
\* while an activation is between line 37 and its finally block, the start control is
\* disabled all that time, and so no second activation exists beside it.
C29_OneRunAtATime ==
    /\ Cardinality(InProgress) <= 1
    /\ isProcessing <=> InProgress # {}
    /\ InProgress # {} => StartDisabled

\* C29's case: a second run is in progress after the first has ended, with a log in the
\* textarea that would start a run if the control were enabled
C29_Witness ==
    /\ Len(runs) = 2
    /\ runs[1].at = "ended" /\ runs[2].at = "generating"
    /\ Trim(rawLog) # <<>>

\* the names of the calls of a run, in the order of the pipeline
PipelineCalls == <<"cleanLogToQuery", "retrieveRelevantChunks", "generateRAGSolution">>

AwaitsLeft(run) ==
    CASE run.at = "ingestDelay" -> 4
      [] run.at = "cleaning" -> 3
      [] run.at = "searchDelay" -> 2
      [] run.at = "generating" -> 1
      [] run.at = "ended" -> 0

\* activation r can go on: the timer it waits for can fire (AfterIngestDelay,
\* AfterSearchDelay), or the call it waits for can return or fail (CleanReturns,
\* CleanFails, GenerateReturns, GenerateFails)
CanContinue(r) == runs[r].at \in {"ingestDelay", "cleaning", "searchDelay", "generating"}

\* the last call of run r fails in this step
CallFails(r) ==
    /\ runs[r].at \in {"cleaning", "generating"}
    /\ runs'[r].at = "ended"
    /\ runs'[r].calls[Len(runs'[r].calls)].outcome = "failed"

\* exactly one of result and errorMsg is set
ExactlyOneSet(res, msg) == (res # <<>>) # (msg # <<>> /\ msg[1] # "")

\* C25: a failure of cleanLogToQuery or generateRAGSolution ends the run: in the step in
\* which the call fails errorMsg is set, result stays null, no call is made and no step
\* becomes 'loading', and isProcessing goes back to false; and every run eventually
\* reaches isProcessing = false with exactly one of result and errorMsg set: while
\* isProcessing holds an activation can go on, every step of an activation leaves it with
\* fewer awaits before it, no other step touches it, and the step that resets isProcessing
\* leaves exactly one of result and errorMsg set.
C25_FailureEndsRun ==
    /\ [][\A r \in 1..Len(runs) : CallFails(r) =>
              /\ errorMsg' # <<>> /\ errorMsg'[1] # ""
              /\ ragResult = <<>> /\ ragResult' = <<>>
              /\ Len(runs'[r].calls) = Len(runs[r].calls)
              /\ \A k \in 1..4 : steps'[k] = "loading" => steps[k] = "loading"
              /\ ~isProcessing']_vars
    /\ [][(isProcessing /\ ~isProcessing') => ExactlyOneSet(ragResult', errorMsg')]_vars
    /\ [][\A r \in 1..Len(runs) :
              /\ AwaitsLeft(runs'[r]) <= AwaitsLeft(runs[r])
              /\ runs'[r] # runs[r] => AwaitsLeft(runs'[r]) < AwaitsLeft(runs[r])]_vars
    /\ [](isProcessing => \E r \in InProgress : CanContinue(r))

\* C25's case: the second run has ended at a failed generateRAGSolution raised without a
\* message, after a first run that set result
C25_Witness ==
    /\ Len(runs) = 2
    /\ runs[1].at = "ended" /\ runs[1].calls[Len(runs[1].calls)].outcome = "returned"
    /\ runs[2].at = "ended" /\ Len(runs[2].calls) = 3
    /\ runs[2].calls[3].outcome = "failed"
    /\ errorMsg = <<"An unexpected error occurred.">>
    /\ ragResult = <<>>
    /\ ~isProcessing

====
